---- MODULE Spec2Model ----
(***************************************************************************)
(* Pokemon TCG Checker API (src/main.py, src/schemas.py).                  *)
(*                                                                         *)
(* One action per route handler.  A Python value that may be None is an    *)
(* option: << >> is None, <<v>> is the value v.  A JSON request body is a  *)
(* function from the field names it carries to such options (an explicit   *)
(* null is << >>, an omitted field is not in the DOMAIN).                  *)
(***************************************************************************)
EXTENDS Integers, Sequences, FiniteSets, TLC

VARIABLES
    store,     \* the "wishlistitem" collection: the records, in insertion order
    nextId,    \* the next identifier the document store assigns
    db,        \* the process-wide store handle: "absent" (None) or "present"
    created,   \* history: what each successful POST /api/wishlist submitted and got
    last       \* the request handled last: its input, what it did, its response

vars == <<store, nextId, db, created, last>>

\* ------------------------------------------------------------------ bounds

MaxStore == 2          \* records the collection holds at most
MaxCollections == 11   \* collections the database holds at most

\* ------------------------------------------------------------ Python values

\* database.db: a handle on the database, or None when none was configured.
Handles == {"present", "absent"}

None == << >>
Some(v) == <<v>>

\* Python truthiness of an Optional[str]: None and "" are falsy.
Truthy(o) == o # None /\ o[1] # ""

EmptyDict == [k \in {} |-> None]

\* ---------------------------------------------------------------- responses

Returned(value) == [status |-> 200, body |-> [kind |-> "json", value |-> value]]

\* FastAPI renders a raised HTTPException as its status code and {"detail": ...}.
HTTPException(status_code, detail) ==
    [status |-> status_code, body |-> [kind |-> "detail", detail |-> detail]]

\* FastAPI's answer to a body that fails the handler's model: 422, field detail.
ValidationError(fields) ==
    [status |-> 422, body |-> [kind |-> "validation", fields |-> fields]]

\* What a try body did: returned a value, or raised an exception.
Return(v) == [kind |-> "return", value |-> v]
Raise(e) == [kind |-> "raise", exc |-> e]
PyException(msg) == [type |-> "Exception", msg |-> msg]
RaisedHTTP(status_code, detail) ==
    [type |-> "HTTPException", status_code |-> status_code, detail |-> detail]

\* str(e): Starlette's HTTPException prints as "<status_code>: <detail>".
StrExc(e) ==
    IF e.type = "HTTPException"
    THEN ToString(e.status_code) \o ": " \o e.detail
    ELSE e.msg

\* "except Exception as e: raise HTTPException(status_code=500, detail=str(e))":
\* HTTPException is an Exception, so the clause catches the handler's own raise.
ExceptException(outcome) ==
    IF outcome.kind = "raise"
    THEN HTTPException(500, StrExc(outcome.exc))
    ELSE Returned(outcome.value)

\* ------------------------------------------------------------------ request log

NoUp == [kind |-> "none"]

Handled(ep, input, resp, outbound, storeOps, up, before) ==
    [ep |-> ep, input |-> input, status |-> resp.status, body |-> resp.body,
     outbound |-> outbound, storeOps |-> storeOps, up |-> up, db |-> db,
     before |-> before]

Init ==
    /\ store = << >>
    /\ nextId = 1
    /\ db \in Handles
    /\ created = << >>
    /\ last = [ep |-> "none", input |-> EmptyDict, status |-> 0,
               body |-> [kind |-> "none"], outbound |-> << >>,
               storeOps |-> << >>, up |-> NoUp, db |-> db, before |-> << >>]

\* GET /
root ==
    /\ last' = Handled("root", EmptyDict,
                       Returned([message |-> "Pokemon TCG Checker Backend running"]),
                       << >>, << >>, NoUp, store)
    /\ UNCHANGED <<store, nextId, db, created>>

\* ------------------------------------------------------------- GET /test

CollectionsShown == 10
ErrPrefixLen == 80

\* Python's s[:n] on a string or a list.
Prefix(s, n) == IF Len(s) > n THEN SubSeq(s, 1, n) ELSE s

\* "Set"/"Not Set" for os.getenv(name), which is None or the (maybe empty) value.
EnvFlag(v) == IF Truthy(v) THEN "Set" ELSE "Not Set"

\* What db.list_collection_names() can do on a handle that is not None: the
\* names, or an error of the driver when the server cannot be reached.
ErrMsgs ==
    {"connection refused",
     "ServerSelectionTimeoutError: localhost:27017: [Errno 111] Connection refused, Timeout: 30s, Topology Description: <TopologyDescription>"}
CollectionNames(n) == [i \in 1..n |-> "c" \o ToString(i)]
Listings(d) ==
    IF d = "present"
    THEN {Return(CollectionNames(n)) : n \in {0, MaxCollections}}
         \cup {Raise(PyException(m)) : m \in ErrMsgs}
    ELSE {Return(<< >>)}

EnvValues == {None, Some(""), Some("set")}
DatabaseEnvValues == {None, Some("mongodb://localhost:27017")}

\* The body of test_database (the status icons of the source are left out of
\* the texts).  `listing` is what list_collection_names() does when called.
test_database_unguarded(d, listing, url, name) ==
    IF d # "absent" /\ listing.kind = "raise"
    THEN HTTPException(500, "Internal Server Error")
    ELSE Returned([backend |-> "Running",
                   database |-> IF d = "absent" THEN "Available but not initialized"
                                ELSE "Connected & Working",
                   database_url |-> EnvFlag(url),
                   database_name |-> EnvFlag(name),
                   connection_status |-> IF d = "absent" THEN "Not Connected"
                                         ELSE "Connected",
                   collections |-> IF d = "absent" THEN << >>
                                   ELSE Prefix(listing.value, CollectionsShown)])

test_database(d, listing, url, name) ==
    LET response0 == [backend |-> "Running",
                      database |-> "Not Available",
                      database_url |-> None,
                      database_name |-> None,
                      connection_status |-> "Not Connected",
                      collections |-> << >>]
        response1 ==
            IF d # "absent"
            THEN IF listing.kind = "return"
                 THEN [response0 EXCEPT
                          !.collections = Prefix(listing.value, CollectionsShown),
                          !.database = "Connected & Working",
                          !.connection_status = "Connected"]
                 ELSE [response0 EXCEPT
                          !.database = "Connected but Error: "
                                       \o Prefix(StrExc(listing.exc), ErrPrefixLen)]
            ELSE [response0 EXCEPT !.database = "Available but not initialized"]
    IN  Returned([response1 EXCEPT !.database_url = EnvFlag(url),
                                   !.database_name = EnvFlag(name)])

TestDatabase ==
    \E listing \in Listings(db), url \in DatabaseEnvValues, name \in DatabaseEnvValues :
        /\ last' = Handled("test_database",
                           [DATABASE_URL |-> url, DATABASE_NAME |-> name],
                           test_database(db, listing, url, name),
                           << >>,
                           IF db = "absent" THEN << >>
                           ELSE <<[op |-> "list_collection_names"]>>,
                           listing, store)
        /\ UNCHANGED <<store, nextId, db, created>>

\* -------------------------------------- GET /api/prices/cardmarket/{card_id}

CardIds == {"sv3-1", "base1-4"}

get_cardmarket_price_enabled(card_id, app_token) ==
    IF ~Truthy(app_token)
    THEN HTTPException(501, "Cardmarket API not configured. Provide OAuth credentials to enable.")
    ELSE Returned([card_id |-> card_id])

get_cardmarket_price(card_id, app_token) ==
    IF ~Truthy(app_token)
    THEN HTTPException(501, "Cardmarket API not configured. Provide OAuth credentials to enable.")
    ELSE HTTPException(501, "Cardmarket integration pending implementation.")

GetCardmarketPrice ==
    \E card_id \in CardIds, app_token \in EnvValues :
        /\ last' = Handled("get_cardmarket_price",
                           [card_id |-> card_id, CARDMARKET_APP_TOKEN |-> app_token],
                           get_cardmarket_price(card_id, app_token),
                           << >>, << >>, NoUp, store)
        /\ UNCHANGED <<store, nextId, db, created>>

\* ------------------------------------------------- Pokemon TCG API proxy

PTCG_API_BASE == "https://api.pokemontcg.io/v2"
TimeoutS == 20
DefaultPage == 1
DefaultCardsPageSize == 24
DefaultSetsPageSize == 50

\* The JSON documents the catalog serves, and their wire text.
RECURSIVE JsonList(_)
JsonList(xs) ==
    IF xs = << >> THEN ""
    ELSE "\"" \o Head(xs) \o "\""
         \o (IF Len(xs) > 1 THEN ", " ELSE "") \o JsonList(Tail(xs))

JsonDumps(doc) ==
    "{\"data\": [" \o JsonList(doc.data) \o "], \"totalCount\": "
    \o ToString(doc.totalCount) \o "}"

JsonDocs ==
    {[data |-> <<"sv3-1", "base1-4">>, totalCount |-> 2],
     [data |-> << >>, totalCount |-> 0]}

\* r.json(): the document the text is the JSON of, or a decode error.
JsonLoads(text) ==
    IF \E d \in JsonDocs : JsonDumps(d) = text
    THEN Return(CHOOSE d \in JsonDocs : JsonDumps(d) = text)
    ELSE Raise(PyException("Expecting value: line 1 column 1 (char 0)"))

\* What one outbound GET can do: a response of the catalog, or a transport error.
UpstreamResponse(c, t) == [kind |-> "response", status_code |-> c, text |-> t]
UpstreamOutcomes ==
    {UpstreamResponse(200, JsonDumps([data |-> <<"sv3-1", "base1-4">>, totalCount |-> 2])),
     UpstreamResponse(200, "Bad Gateway"),
     UpstreamResponse(404, "Not Found"),
     [kind |-> "exception", msg |-> "HTTPSConnectionPool: Read timed out."]}

GetCall(url, params) ==
    [method |-> "GET", url |-> url, params |-> params, timeout |-> TimeoutS]

\* requests.get(url, params=params, timeout=20), retried once on a transport error.
requests_get_retry(url, params, up) ==
    [calls |-> IF up.kind = "exception"
               THEN <<GetCall(url, params), GetCall(url, params)>>
               ELSE <<GetCall(url, params)>>,
     r |-> up]

\* requests.get(url, params=params, timeout=20): one call, and what came of it.
requests_get(url, params, up) ==
    [calls |-> <<GetCall(url, params)>>, r |-> up]

\* The rest of each proxy's try body, from the outcome of its requests.get.
relay(r) ==
    IF r.kind = "exception" THEN Raise(PyException(r.msg))
    ELSE IF r.status_code # 200 THEN Raise(RaisedHTTP(r.status_code, r.text))
    ELSE JsonLoads(r.text)

\* search_cards' params with pageSize capped: a bounds check the code lacks.
search_params_capped(q, page, pageSize) ==
    [page |-> page, pageSize |-> IF pageSize > 20 THEN 20 ELSE pageSize]
    @@ (IF Truthy(q) THEN [q |-> q[1]] ELSE EmptyDict)

search_params(q, page, pageSize) ==
    [page |-> page, pageSize |-> pageSize]
    @@ (IF Truthy(q) THEN [q |-> q[1]] ELSE EmptyDict)

sets_params(page, pageSize, orderBy) ==
    [page |-> page, pageSize |-> pageSize]
    @@ (IF Truthy(orderBy) THEN [orderBy |-> orderBy[1]] ELSE EmptyDict)

\* A query parameter the request leaves out takes the handler's default.
Default(o, d) == IF o = None THEN d ELSE o[1]

Queries == {None, Some(""), Some("name:Charizard")}
Pages == {None, Some(0)}
PageSizes == {None, Some(10)}
OrderBys == {None, Some("-releaseDate")}

search_cards(q, page, pageSize, up) ==
    LET got == requests_get(PTCG_API_BASE \o "/cards",
                            search_params(q, page, pageSize), up)
    IN  [resp |-> ExceptException(relay(got.r)), outbound |-> got.calls]

get_card(card_id, up) ==
    LET got == requests_get(PTCG_API_BASE \o "/cards/" \o card_id, EmptyDict, up)
    IN  [resp |-> ExceptException(relay(got.r)), outbound |-> got.calls]

list_sets(page, pageSize, orderBy, up) ==
    LET got == requests_get(PTCG_API_BASE \o "/sets",
                            sets_params(page, pageSize, orderBy), up)
    IN  [resp |-> ExceptException(relay(got.r)), outbound |-> got.calls]

SearchCards ==
    \E q \in Queries, page \in Pages, pageSize \in PageSizes, up \in UpstreamOutcomes :
        LET h == search_cards(q, Default(page, DefaultPage),
                              Default(pageSize, DefaultCardsPageSize), up)
        IN  /\ last' = Handled("search_cards",
                               [q |-> q, page |-> page, pageSize |-> pageSize],
                               h.resp, h.outbound, << >>, up, store)
            /\ UNCHANGED <<store, nextId, db, created>>

GetCard ==
    \E card_id \in CardIds, up \in UpstreamOutcomes :
        LET h == get_card(card_id, up)
        IN  /\ last' = Handled("get_card", [card_id |-> card_id],
                               h.resp, h.outbound, << >>, up, store)
            /\ UNCHANGED <<store, nextId, db, created>>

ListSets ==
    \E page \in Pages, pageSize \in PageSizes, orderBy \in OrderBys,
       up \in UpstreamOutcomes :
        LET h == list_sets(Default(page, DefaultPage),
                           Default(pageSize, DefaultSetsPageSize), orderBy, up)
        IN  /\ last' = Handled("list_sets",
                               [page |-> page, pageSize |-> pageSize,
                                orderBy |-> orderBy],
                               h.resp, h.outbound, << >>, up, store)
            /\ UNCHANGED <<store, nextId, db, created>>

\* ------------------------------------------------------------- wishlist

Fields ==
    {"card_id", "name", "set_name", "set_id", "number", "image_url",
     "desired_price", "notes", "status"}

\* What pydantic makes of a body under a model: the fields in `required` must be
\* there and not null; a field left out takes its default.
Validate(payload, required) ==
    LET errors == {f \in required : f \notin DOMAIN payload \/ payload[f] = None}
    IN  IF errors # {} THEN Raise([type |-> "ValidationError", fields |-> errors])
        ELSE Return([f \in Fields |->
                        IF f \in DOMAIN payload THEN payload[f]
                        ELSE IF f = "status" THEN Some("watching") ELSE None])

\* WishlistIn with name left optional.
WishlistIn_name_optional(payload) == Validate(payload, {"card_id"})

\* class WishlistIn: card_id and name are required strings, every other field
\* is Optional with default None, status Optional[str] with default "watching".
WishlistIn(payload) == Validate(payload, {"card_id", "name"})

\* class WishlistItem of schemas.py, which no handler uses: as WishlistIn, and
\* desired_price ge=0, status a str (not null).
WishlistItem(payload) ==
    LET v == Validate(payload, {"card_id", "name"})
        errors == {f \in {"desired_price"} :
                      v.value[f] # None /\ v.value[f][1] < 0}
                  \cup {f \in {"status"} : v.value[f] = None}
    IN  IF v.kind = "raise" THEN v
        ELSE IF errors # {} THEN Raise([type |-> "ValidationError", fields |-> errors])
        ELSE v

\* "watching | bought | removed", the description of WishlistItem.status.
StatusValues == {"watching", "bought", "removed"}

Minimal == [card_id |-> Some("sv3-1"), name |-> Some("Charizard ex")]
Payloads ==
    {[card_id |-> Some("sv3-1"), name |-> Some("Charizard ex"),
      set_name |-> Some("Obsidian Flames"), set_id |-> Some("sv3"),
      number |-> Some("125"), image_url |-> Some("https://images.pokemontcg.io/sv3/125.png"),
      desired_price |-> Some(4), notes |-> None, status |-> Some("bought")],
     Minimal,
     Minimal @@ [desired_price |-> Some(-5)],
     Minimal @@ [status |-> Some("sold")],
     Minimal @@ [status |-> None],
     [name |-> Some("Charizard ex")],
     [card_id |-> Some("sv3-1")]}

\* str(ObjectId): the identifier as text.
ObjectIdStr(oid) == ToString(oid)

\* What the one store operation of a request does on a handle that is there.
StoreOutcomes == {[kind |-> "store", failed |-> b] : b \in BOOLEAN}

\* database.create_document(collection_name, data): the record of the item,
\* inserted under the identifier the store assigns; the identifier as text.
create_document(collection_name, item, d, so, oid) ==
    IF d = "absent"
    THEN [result |-> Raise(PyException("Database not available")),
          storeOps |-> << >>, inserted |-> << >>]
    ELSE IF so.failed
    THEN [result |-> Raise(PyException("insert_one failed: connection refused")),
          storeOps |-> <<[op |-> "insert_one", collection |-> collection_name]>>,
          inserted |-> << >>]
    ELSE [result |-> Return(ObjectIdStr(oid)),
          storeOps |-> <<[op |-> "insert_one", collection |-> collection_name]>>,
          inserted |-> <<("_id" :> oid) @@ item>>]

Matches(doc, filter_dict) ==
    \A k \in DOMAIN filter_dict : k \in DOMAIN doc /\ doc[k] = Some(filter_dict[k])

\* database.get_documents(collection_name, filter_dict): the records that equal
\* the filter on each of its keys, in the store's order.
get_documents(collection_name, filter_dict, d, so, records) ==
    IF d = "absent"
    THEN [result |-> Raise(PyException("Database not available")), storeOps |-> << >>]
    ELSE IF so.failed
    THEN [result |-> Raise(PyException("find failed: connection refused")),
          storeOps |-> <<[op |-> "find", collection |-> collection_name,
                          filter |-> filter_dict]>>]
    ELSE [result |-> Return(SelectSeq(records, LAMBDA doc : Matches(doc, filter_dict))),
          storeOps |-> <<[op |-> "find", collection |-> collection_name,
                          filter |-> filter_dict]>>]

\* add_wishlist: FastAPI validates the body as a WishlistIn before the handler
\* runs; the handler creates the document and returns its identifier.
add_wishlist(payload, d, so, oid) ==
    LET item == WishlistIn(payload)
        made == create_document("wishlistitem", item.value, d, so, oid)
    IN  IF item.kind = "raise"
        THEN [resp |-> ValidationError(item.exc.fields), storeOps |-> << >>,
              inserted |-> << >>]
        ELSE [resp |-> ExceptException(
                          IF made.result.kind = "return"
                          THEN Return([id |-> made.result.value])
                          ELSE made.result),
              storeOps |-> made.storeOps, inserted |-> made.inserted]

\* list_wishlist's filter with the status argument ignored.
filter_dict_all(status) == EmptyDict

\* filter_dict = {"status": status} if status else {}
filter_dict(status) == IF Truthy(status) THEN [status |-> status[1]] ELSE EmptyDict

\* The record with the card identifier given as its "id".
present_card_id(d) ==
    [f \in (DOMAIN d \ {"_id"}) \cup {"id"} |->
        IF f = "id" THEN d["card_id"][1] ELSE d[f]]

\* if "_id" in d: d["id"] = str(d.pop("_id"))
present(d) ==
    IF "_id" \in DOMAIN d
    THEN [f \in (DOMAIN d \ {"_id"}) \cup {"id"} |->
             IF f = "id" THEN ObjectIdStr(d["_id"]) ELSE d[f]]
    ELSE d

list_wishlist(status, d, so, records) ==
    LET got == get_documents("wishlistitem", filter_dict(status), d, so, records)
    IN  [resp |-> ExceptException(
                     IF got.result.kind = "return"
                     THEN Return([items |-> [i \in 1..Len(got.result.value) |->
                                                present(got.result.value[i])]])
                     ELSE got.result),
         storeOps |-> got.storeOps]

StatusQueries == {None, Some(""), Some("bought"), Some("watching")}

AddWishlist ==
    /\ Len(store) < MaxStore
    /\ \E payload \in Payloads, so \in StoreOutcomes :
        LET h == add_wishlist(payload, db, so, nextId)
        IN  /\ store' = store \o h.inserted
            /\ nextId' = nextId + Len(h.inserted)
            /\ created' = IF h.resp.status = 200
                          THEN Append(created, [id |-> h.resp.body.value.id,
                                                payload |-> payload])
                          ELSE created
            /\ last' = Handled("add_wishlist", [payload |-> payload],
                               h.resp, << >>, h.storeOps, so, store)
            /\ UNCHANGED db

ListWishlist ==
    \E status \in StatusQueries, so \in StoreOutcomes :
        LET h == list_wishlist(status, db, so, store)
        IN  /\ last' = Handled("list_wishlist", [status |-> status],
                               h.resp, << >>, h.storeOps, so, store)
            /\ UNCHANGED <<store, nextId, db, created>>

Next ==
    \/ root
    \/ TestDatabase
    \/ SearchCards
    \/ GetCard
    \/ ListSets
    \/ GetCardmarketPrice
    \/ AddWishlist
    \/ ListWishlist

Spec == Init /\ [][Next]_vars

\* ------------------------------------------------------------------ claims

Proxies == {"search_cards", "get_card", "list_sets"}
Items == last.body.value.items
WishlistValid(payload) ==
    /\ WishlistItem(payload).kind = "return"
    /\ WishlistItem(payload).value["status"][1] \in StatusValues
NotConfigured == "Cardmarket API not configured. Provide OAuth credentials to enable."
Pending == "Cardmarket integration pending implementation."

\* C1: once a POST /api/wishlist with a valid payload has succeeded, every
\* unfiltered GET /api/wishlist on an available store succeeds and returns an
\* item that equals every submitted field and carries the identifier the POST
\* returned; every returned identifier is a non-empty string, and no two
\* returned items share one, items made from the same payload included.
C1_PostThenGet ==
    (last.ep = "list_wishlist" /\ ~Truthy(last.input.status)) =>
        /\ (last.db = "present" /\ ~last.up.failed) => last.status = 200
        /\ last.status = 200 =>
            /\ \A i \in 1..Len(created) :
                  WishlistValid(created[i].payload) =>
                      \E k \in 1..Len(Items) :
                          /\ Items[k]["id"] = created[i].id
                          /\ \A f \in DOMAIN created[i].payload :
                                Items[k][f] = created[i].payload[f]
            /\ \A k \in 1..Len(Items) :
                  /\ Items[k]["id"] # ""
                  /\ \A j \in 1..Len(Items) : j # k => Items[j]["id"] # Items[k]["id"]

C1_Witness ==
    /\ last.ep = "list_wishlist" /\ last.input.status = None /\ last.status = 200
    /\ Len(created) = 2 /\ Len(Items) = 2
    /\ created[1].payload = created[2].payload
    /\ WishlistValid(created[1].payload)

\* C2: a POST /api/wishlist whose desired_price is negative is rejected as a
\* validation error, performs no store operation and leaves the stored items
\* as they were.
C2_NegativePriceRejected ==
    (/\ last.ep = "add_wishlist"
     /\ "desired_price" \in DOMAIN last.input.payload
     /\ last.input.payload["desired_price"] # None
     /\ last.input.payload["desired_price"][1] < 0) =>
        /\ last.status = 422
        /\ last.storeOps = << >>
        /\ store = last.before

\* C3: when the catalog answers a proxy endpoint with a status other than 200,
\* the caller gets an error with that same status and the catalog's body.
C3_UpstreamStatusRelayed ==
    (/\ last.ep \in Proxies
     /\ last.up.kind = "response"
     /\ last.up.status_code # 200) =>
        /\ last.status = last.up.status_code
        /\ last.body = [kind |-> "detail", detail |-> last.up.text]

\* C4: every stored item has a status among watching, bought, removed; a
\* payload without status is stored as "watching"; a payload with another
\* status, or an explicit null, is never stored.
C4_StatusEnumerated ==
    /\ \A i \in 1..Len(store) :
          store[i]["status"] \in {Some(v) : v \in StatusValues}
    /\ (/\ last.ep = "add_wishlist" /\ last.status = 200
        /\ "status" \notin DOMAIN last.input.payload) =>
           store[Len(store)]["status"] = Some("watching")
    /\ (/\ last.ep = "add_wishlist"
        /\ "status" \in DOMAIN last.input.payload
        /\ (\/ last.input.payload["status"] = None
            \/ last.input.payload["status"][1] \notin StatusValues)) =>
           /\ last.status # 200
           /\ store = last.before

\* C5: a successful GET /api/wishlist?status=s with s not empty returns exactly
\* the stored items whose status is s: each returned item has status s and none
\* of the stored items with status s is missing; without a status it returns
\* every stored item.
C5_StatusFilter ==
    (last.ep = "list_wishlist" /\ last.status = 200) =>
        LET s == last.input.status
            wanted == {i \in 1..Len(last.before) :
                          Truthy(s) => last.before[i]["status"] = s}
        IN  /\ Len(Items) = Cardinality(wanted)
            /\ {Items[k]["id"] : k \in 1..Len(Items)}
                  = {ObjectIdStr(last.before[i]["_id"]) : i \in wanted}
            /\ \A k \in 1..Len(Items) :
                  /\ Truthy(s) => Items[k]["status"] = s
                  /\ \E i \in wanted :
                        \A f \in Fields : Items[k][f] = last.before[i][f]

C5_Witness ==
    /\ last.ep = "list_wishlist" /\ last.status = 200
    /\ last.input.status = Some("bought")
    /\ Len(Items) = 1 /\ Len(last.before) = 2

\* C6 as first stated: the price endpoint never succeeds, calls nothing, and
\* answers "not configured" when CARDMARKET_APP_TOKEN is unset and "pending
\* implementation" whenever it is set.
C6_UnsetOrSet ==
    last.ep = "get_cardmarket_price" =>
        /\ last.status = 501
        /\ last.outbound = << >> /\ last.storeOps = << >> /\ store = last.before
        /\ last.input["CARDMARKET_APP_TOKEN"] = None =>
              last.body = [kind |-> "detail", detail |-> NotConfigured]
        /\ last.input["CARDMARKET_APP_TOKEN"] # None =>
              last.body = [kind |-> "detail", detail |-> Pending]

\* C6: the price endpoint never succeeds, whatever the card id and the
\* environment, and makes no outbound call and no store operation: it answers
\* "not configured" when CARDMARKET_APP_TOKEN is unset or empty, and "pending
\* implementation" when it is set to a non-empty value.
C6_NeverSucceeds ==
    last.ep = "get_cardmarket_price" =>
        /\ last.status = 501
        /\ last.outbound = << >> /\ last.storeOps = << >> /\ store = last.before
        /\ ~Truthy(last.input["CARDMARKET_APP_TOKEN"]) =>
              last.body = [kind |-> "detail", detail |-> NotConfigured]
        /\ Truthy(last.input["CARDMARKET_APP_TOKEN"]) =>
              last.body = [kind |-> "detail", detail |-> Pending]

C6_Witness ==
    /\ last.ep = "get_cardmarket_price"
    /\ last.input["CARDMARKET_APP_TOKEN"] = Some("")
    /\ last.body = [kind |-> "detail", detail |-> NotConfigured]

\* C7: GET /api/cards issues one GET of <base>/cards whose parameters are page
\* and pageSize as given (1 and 24 when left out, no bounds check) and q, there
\* only when it was supplied; when the catalog answers 200 with a JSON
\* document, the caller gets that document unchanged.
C7_SearchForwarded ==
    last.ep = "search_cards" =>
        /\ Len(last.outbound) = 1
        /\ last.outbound[1].method = "GET"
        /\ last.outbound[1].url = "https://api.pokemontcg.io/v2/cards"
        /\ LET params == last.outbound[1].params
               q == last.input.q
           IN  /\ DOMAIN params \subseteq {"q", "page", "pageSize"}
               /\ {"page", "pageSize"} \subseteq DOMAIN params
               /\ params["page"] = IF last.input.page = None THEN 1
                                   ELSE last.input.page[1]
               /\ params["pageSize"] = IF last.input.pageSize = None THEN 24
                                       ELSE last.input.pageSize[1]
               /\ "q" \in DOMAIN params => (q # None /\ params["q"] = q[1])
               /\ Truthy(q) => "q" \in DOMAIN params
        /\ \A doc \in JsonDocs :
              (/\ last.up.kind = "response" /\ last.up.status_code = 200
               /\ last.up.text = JsonDumps(doc)) =>
                  /\ last.status = 200
                  /\ last.body = [kind |-> "json", value |-> doc]

C7_Witness ==
    /\ last.ep = "search_cards"
    /\ last.input = [q |-> Some("name:Charizard"), page |-> Some(0),
                     pageSize |-> Some(10)]
    /\ last.outbound[1].params = [q |-> "name:Charizard", page |-> 0, pageSize |-> 10]
    /\ last.status = 200
    /\ last.body.value.totalCount = 2

\* C8: a POST /api/wishlist whose payload has no card_id or no name is rejected
\* as a validation error: no store operation is made and the stored items stay
\* as they were.
C8_RequiredFields ==
    (/\ last.ep = "add_wishlist"
     /\ (\/ "card_id" \notin DOMAIN last.input.payload
         \/ "name" \notin DOMAIN last.input.payload)) =>
        /\ last.status = 422
        /\ last.body.kind = "validation"
        /\ last.storeOps = << >>
        /\ store = last.before

C8_Witness ==
    /\ last.ep = "add_wishlist"
    /\ "name" \notin DOMAIN last.input.payload
    /\ last.db = "present" /\ ~last.up.failed
    /\ last.status = 422

\* C9: GET /test answers 200 in every state of the store (no handle, a handle
\* whose listing fails, a working handle); the body has the database,
\* collections, database_url and database_name fields, at most 10 collection
\* names, and the text of a failure inside the database field.
C9_TestNeverRaises ==
    last.ep = "test_database" =>
        /\ last.status = 200
        /\ last.body.kind = "json"
        /\ {"database", "collections", "database_url", "database_name"}
              \subseteq DOMAIN last.body.value
        /\ Len(last.body.value.collections) <= 10
        /\ (last.db = "present" /\ last.up.kind = "return") =>
              /\ last.body.value.collections = Prefix(last.up.value, 10)
              /\ last.body.value.database = "Connected & Working"
        /\ (last.db = "present" /\ last.up.kind = "raise") =>
              /\ last.body.value.database
                    = "Connected but Error: " \o Prefix(last.up.exc.msg, 80)
              /\ last.body.value.collections = << >>
        /\ last.db = "absent" =>
              last.body.value.database = "Available but not initialized"

C9_Witness ==
    /\ last.ep = "test_database"
    /\ last.db = "present" /\ last.up.kind = "raise"
    /\ Len(last.up.exc.msg) > 80
    /\ last.status = 200

\* C10: a request makes at most one downstream operation (one outbound GET for
\* a proxy endpoint, one insert for POST /api/wishlist, one query for GET
\* /api/wishlist) and never repeats it: when the operation fails the response
\* is an error; and a GET request leaves the stored items as they were.
C10_OneDownstreamCall ==
    /\ Len(last.outbound) + Len(last.storeOps) <= 1
    /\ last.ep \in Proxies =>
          /\ Len(last.outbound) = 1
          /\ (last.up.kind = "exception" \/ last.up.status_code # 200) =>
                (last.status >= 400 /\ last.body.kind = "detail")
    /\ last.ep = "add_wishlist" =>
          /\ \A i \in 1..Len(last.storeOps) : last.storeOps[i].op = "insert_one"
          /\ (last.storeOps # << >> /\ last.up.failed) =>
                (last.status = 500 /\ last.body.kind = "detail" /\ store = last.before)
    /\ last.ep = "list_wishlist" =>
          /\ \A i \in 1..Len(last.storeOps) : last.storeOps[i].op = "find"
          /\ (last.storeOps # << >> /\ last.up.failed) =>
                (last.status = 500 /\ last.body.kind = "detail")
    /\ last.ep \notin {"add_wishlist", "none"} => store = last.before

C10_Witness ==
    /\ last.ep \in Proxies
    /\ last.up.kind = "exception"
    /\ Len(last.outbound) = 1
    /\ last.status = 500
    /\ Len(store) = MaxStore
====
